---------------------------- MODULE Spec2Model ----------------------------
(***************************************************************************)
(* scripts/setup-chromadb.py: the loader that creates three ChromaDB       *)
(* collections, embeds and adds the seed catalogs, runs the sample         *)
(* queries and reports the collection counts.                              *)
(*                                                                         *)
(* The Document Store (ChromaDB over HTTP) and the embedding model are     *)
(* external.  The store is modelled by the behaviour of the client calls   *)
(* the script makes: create_collection raises "... already exists" when    *)
(* the name is taken, get_collection returns the named collection,         *)
(* collection.add rejects a batch that repeats an id and otherwise inserts *)
(* the ids that are absent and leaves the ids that are present untouched   *)
(* (the behaviour of every ChromaDB release that has HttpClient), query    *)
(* and count read.  Every external call may also fail on its own (network, *)
(* server, model download); a failed write may or may not have reached the *)
(* store.                                                                  *)
(***************************************************************************)
EXTENDS Integers, Sequences, FiniteSets, TLC

\* Number of runs of main() executed one after the other against the store.
MaxRuns == 3

\* Number of clients running create_collections concurrently (SpecConc).
NumClients == 2

(***************************************************************************)
(* State                                                                   *)
(***************************************************************************)
VARIABLES
  chroma,       \* the store: the set of its collections
  pc,           \* per client: where it is, [fn, i, ph, ret]
  collections,  \* per client: the dict create_collections builds, name -> handle
  runs,         \* runs of main started so far (0: no run of main)
  done,         \* per client: calls completed in the current run, <<op, arg>>
  failure,      \* per client: the exception that ended the current run, if any:
                \* where it arose and whether the cause was external
  prev          \* the previous run of main: its outcome, dict and completed
                \* calls, and the store it left

(***************************************************************************)
(* Seed catalog                                                            *)
(***************************************************************************)
RELATIONSHIP_THEMES ==
  <<
    [id |-> "resentment",
     theme |-> "resentment",
     description |-> "Built-up anger, frustration, or bitterness toward partner",
     examples |->
      << "You never help with anything",
         "I'm tired of doing everything myself",
         "You don't appreciate what I do",
         "I feel taken for granted",
         "You always leave me to handle things alone" >>],
    [id |-> "disconnection",
     theme |-> "disconnection",
     description |-> "Feeling emotionally distant or unconnected from partner",
     examples |->
      << "We feel like roommates",
         "I miss feeling close to you",
         "We don't talk anymore",
         "I feel alone even when you're here",
         "We're living parallel lives" >>],
    [id |-> "household_labor",
     theme |-> "household_labor",
     description |-> "Conflicts about division of housework and domestic responsibilities",
     examples |->
      << "You never do the dishes",
         "I'm tired of cleaning up after you",
         "The house is always a mess",
         "I do all the cooking and cleaning",
         "You don't notice when things need to be done" >>],
    [id |-> "appreciation",
     theme |-> "appreciation",
     description |-> "Need for recognition and gratitude from partner",
     examples |->
      << "You don't see everything I do",
         "I wish you'd notice my efforts",
         "I need more acknowledgment",
         "You take me for granted",
         "I work hard and get no thanks" >>],
    [id |-> "communication",
     theme |-> "communication",
     description |-> "Issues with how partners talk to each other",
     examples |->
      << "You never listen to me",
         "You interrupt me constantly",
         "We can't have a conversation without fighting",
         "You shut down when I try to talk",
         "You don't hear what I'm saying" >>],
    [id |-> "time_together",
     theme |-> "time_together",
     description |-> "Desire for more quality time and attention from partner",
     examples |->
      << "We never spend time together",
         "You're always on your phone",
         "You prioritize everything over us",
         "I miss our connection time",
         "We need more couple time" >>],
    [id |-> "financial_stress",
     theme |-> "financial_stress",
     description |-> "Money-related tensions and disagreements",
     examples |->
      << "We can't afford this",
         "You spend too much money",
         "I'm worried about our finances",
         "We have different spending priorities",
         "Money is always tight" >>],
    [id |-> "intimacy",
     theme |-> "intimacy",
     description |-> "Physical and emotional intimacy concerns",
     examples |->
      << "We're not intimate anymore",
         "I miss physical closeness",
         "You don't initiate affection",
         "I feel rejected when you pull away",
         "We've lost our spark" >>],
    [id |-> "parenting",
     theme |-> "parenting",
     description |-> "Disagreements about child-rearing and parenting approaches",
     examples |->
      << "You're too strict with the kids",
         "I do all the parenting work",
         "We disagree on discipline",
         "You don't help with bedtime",
         "The kids listen to you but not me" >>],
    [id |-> "trust",
     theme |-> "trust",
     description |-> "Issues with honesty, reliability, and faith in partner",
     examples |->
      << "I don't trust you anymore",
         "You broke your promise again",
         "I can't rely on you",
         "You hide things from me",
         "I need to know you're being honest" >>],
    [id |-> "control",
     theme |-> "control",
     description |-> "Power dynamics and control issues in the relationship",
     examples |->
      << "You always have to be right",
         "You make all the decisions",
         "I feel controlled by you",
         "You don't consider my opinions",
         "It's your way or the highway" >>],
    [id |-> "support",
     theme |-> "support",
     description |-> "Need for emotional and practical support from partner",
     examples |->
      << "You're not there for me",
         "I need you to have my back",
         "You don't support my dreams",
         "I feel like I'm on my own",
         "You don't encourage me" >>],
    [id |-> "in_laws",
     theme |-> "in_laws",
     description |-> "Conflicts involving extended family members",
     examples |->
      << "Your mother interferes too much",
         "You always side with your family",
         "I don't feel welcome with your relatives",
         "Your parents don't respect me",
         "Family events are stressful" >>],
    [id |-> "jealousy",
     theme |-> "jealousy",
     description |-> "Feelings of jealousy or insecurity about partner's relationships",
     examples |->
      << "You flirt with other people",
         "I feel threatened by your friend",
         "You give others more attention",
         "I'm worried about your coworker",
         "You text them too much" >>],
    [id |-> "personal_growth",
     theme |-> "personal_growth",
     description |-> "Individual development and self-improvement journeys",
     examples |->
      << "You don't support my goals",
         "I'm growing and you're staying the same",
         "We want different things now",
         "I need space to develop myself",
         "You hold me back from changing" >>]
  >>

game_contexts ==
  <<
    [id |-> "iwr_daily_checkin",
     context |-> "daily emotional check-in feeling disconnected need quick connection",
     game_id |-> "iwr",
     rationale |-> "Quick daily emotional check-in to rebuild connection",
     themes |-> <<"disconnection", "communication">>],
    [id |-> "pause_conflict_spiral",
     context |-> "arguing fighting conflict spiraling elevated emotions",
     game_id |-> "pause",
     rationale |-> "Stop the conflict spiral and take accountability",
     themes |-> <<"communication", "control">>],
    [id |-> "and_what_else_resentment",
     context |-> "built up resentment anger frustration unexpressed",
     game_id |-> "and_what_else",
     rationale |-> "Clear accumulated resentments safely",
     themes |-> <<"resentment", "communication">>],
    [id |-> "pillar_talk_foundation",
     context |-> "relationship foundation values principles basic connection",
     game_id |-> "pillar_talk",
     rationale |-> "Reconnect with relationship foundations",
     themes |-> <<"support", "communication">>],
    [id |-> "closeness_counter_intimacy",
     context |-> "feeling distant disconnected roommates physical emotional distance",
     game_id |-> "closeness_counter",
     rationale |-> "Explore physical and emotional distance patterns",
     themes |-> <<"disconnection", "intimacy">>],
    [id |-> "switch_perspective_taking",
     context |-> "different views opinions perspective understanding disagreement",
     game_id |-> "switch",
     rationale |-> "Build empathy by arguing partner's position",
     themes |-> <<"communication", "control">>],
    [id |-> "bomb_squad_recurring_issue",
     context |-> "same fight recurring issue never resolved keeps coming up",
     game_id |-> "bomb_squad",
     rationale |-> "Systematically defuse a recurring conflict",
     themes |-> <<"communication", "resentment">>],
    [id |-> "seven_nights_vulnerability",
     context |-> "need vulnerability sharing truth deeper connection intimacy",
     game_id |-> "seven_nights",
     rationale |-> "Build vulnerability and truth-sharing muscle",
     themes |-> <<"intimacy", "trust">>]
  >>

test_queries ==
  << "I'm so tired of doing all the housework",
     "We never spend time together anymore",
     "I don't trust you",
     "We keep fighting about the same thing" >>

\* The collections of create_collections, in the order it ensures them,
\* each with the description it passes as metadata.
CollectionSpecs ==
  << [name |-> "relationship_themes",
      description |-> "Semantic themes for relationship conflicts and conversations"],
     [name |-> "translator_history",
      description |-> "Historical translator outputs for pattern learning"],
     [name |-> "game_contexts",
      description |-> "Game recommendation contexts and patterns"] >>

CollectionNames == { CollectionSpecs[i].name : i \in DOMAIN CollectionSpecs }

\* default model_name of generate_embeddings
model_name == "all-MiniLM-L6-v2"

(***************************************************************************)
(* Pure helpers                                                            *)
(***************************************************************************)
Range(s) == { s[i] : i \in DOMAIN s }

\* sep.join(parts)
RECURSIVE Join(_, _)
Join(parts, sep) ==
  IF Len(parts) = 0 THEN ""
  ELSE IF Len(parts) = 1 THEN parts[1]
  ELSE parts[1] \o sep \o Join(Tail(parts), sep)

\* sub in s
Contains(s, sub) ==
  \E i \in 1..(Len(s) - Len(sub) + 1) : SubSeq(s, i, i + Len(sub) - 1) = sub

\* json.dumps of a list of strings (none of them needs escaping)
JsonDumps(list) ==
  "[" \o Join([i \in DOMAIN list |-> "\"" \o list[i] \o "\""], ", ") \o "]"

\* The vector the model returns for a text: deterministic per model and text.
Encode(text) == [model |-> model_name, text |-> text]

\* generate_embeddings: one vector per text, in order.
generate_embeddings(texts) == [i \in DOMAIN texts |-> Encode(texts[i])]

(***************************************************************************)
(* populate_relationship_themes / populate_game_contexts: the batch each   *)
(* builds from its catalog.                                                *)
(***************************************************************************)
ThemeDocument(theme_data) ==
  theme_data.theme \o " " \o theme_data.description \o " "
    \o Join(theme_data.examples, " ")

ThemeMetadata(theme_data) ==
  [theme |-> theme_data.theme,
   description |-> theme_data.description,
   examples_count |-> Len(theme_data.examples)]

\* The theme batch with ids that are not stable from one run to the next.
ThemeBatchFreshIds ==
  [documents |-> [i \in DOMAIN RELATIONSHIP_THEMES |-> ThemeDocument(RELATIONSHIP_THEMES[i])],
   metadatas |-> [i \in DOMAIN RELATIONSHIP_THEMES |-> ThemeMetadata(RELATIONSHIP_THEMES[i])],
   ids |-> [i \in DOMAIN RELATIONSHIP_THEMES |->
              RELATIONSHIP_THEMES[i].id \o "-" \o ToString(runs)]]

ThemeBatch ==
  [documents |-> [i \in DOMAIN RELATIONSHIP_THEMES |-> ThemeDocument(RELATIONSHIP_THEMES[i])],
   metadatas |-> [i \in DOMAIN RELATIONSHIP_THEMES |-> ThemeMetadata(RELATIONSHIP_THEMES[i])],
   ids |-> [i \in DOMAIN RELATIONSHIP_THEMES |-> RELATIONSHIP_THEMES[i].id]]

GameMetadata(ctx) ==
  [game_id |-> ctx.game_id,
   rationale |-> ctx.rationale,
   themes |-> JsonDumps(ctx.themes)]

\* The game batch keyed by game_id instead of id.
GameBatchByGameId ==
  [documents |-> [i \in DOMAIN game_contexts |-> game_contexts[i].context],
   metadatas |-> [i \in DOMAIN game_contexts |-> GameMetadata(game_contexts[i])],
   ids |-> [i \in DOMAIN game_contexts |-> game_contexts[i].game_id]]

GameBatch ==
  [documents |-> [i \in DOMAIN game_contexts |-> game_contexts[i].context],
   metadatas |-> [i \in DOMAIN game_contexts |-> GameMetadata(game_contexts[i])],
   ids |-> [i \in DOMAIN game_contexts |-> game_contexts[i].id]]

(***************************************************************************)
(* The Document Store, as the client calls of the script see it.  A        *)
(* collection is [name, uuid, metadata, records]; records maps an id to    *)
(* its document, metadata and embedding.                                   *)
(***************************************************************************)
NoRecords == <<>>

NoHandle == 0

Named(db, name) == { k \in db : k.name = name }

FreshUuid(db) == Cardinality(db) + 1

\* The exception text of create_collection on a name that is taken.
AlreadyExistsMessage(name) == "Collection " \o name \o " already exists"

\* Texts of the other failures a store call can end with.
OtherFailures ==
  { "Could not connect to a Chroma server. Are you sure it is running?",
    "500 Server Error: Internal Server Error" }

\* client.create_collection(name, metadata)
create_collection(db, name, metadata) ==
  IF Named(db, name) # {}
  THEN [raised |-> TRUE, e |-> AlreadyExistsMessage(name), db |-> db,
        handle |-> NoHandle]
  ELSE [raised |-> FALSE, e |-> "",
        db |-> db \cup { [name |-> name, uuid |-> FreshUuid(db),
                          metadata |-> metadata, records |-> NoRecords] },
        handle |-> FreshUuid(db)]

\* client.get_collection(name), for a name that exists
get_collection(db, name) == (CHOOSE k \in Named(db, name) : TRUE).uuid

ByHandle(db, handle) == CHOOSE k \in db : k.uuid = handle

HasDuplicateIds(ids) == \E i, j \in DOMAIN ids : i < j /\ ids[i] = ids[j]

\* collection.add(documents, metadatas, ids, embeddings) on the records of a
\* collection: a batch that repeats an id is rejected; an id already stored
\* keeps its record; every other id is inserted.
CollectionAdd(records, documents, metadatas, ids, embeddings) ==
  IF HasDuplicateIds(ids)
  THEN [raised |-> TRUE, records |-> records]
  ELSE [raised |-> FALSE,
        records |->
          [k \in (DOMAIN records) \cup Range(ids) |->
             IF k \in DOMAIN records THEN records[k]
             ELSE LET i == CHOOSE j \in DOMAIN ids : ids[j] = k
                  IN  [document |-> documents[i],
                       metadata |-> metadatas[i],
                       embedding |-> embeddings[i]]]]

\* The store with the records of the collection behind `handle` replaced.
WithRecords(db, handle, records) ==
  { IF k.uuid = handle THEN [k EXCEPT !.records = records] ELSE k : k \in db }

\* collection.count()
count(db, handle) == Cardinality(DOMAIN ByHandle(db, handle).records)

(***************************************************************************)
(* Control flow                                                            *)
(***************************************************************************)
\* main with the sample queries run before the game contexts are loaded.
MainStepsVerifyEarly ==
  << "setup_chroma_client", "create_collections",
     "populate_relationship_themes", "test_similarity_search",
     "populate_game_contexts", "collection_stats" >>

\* The calls of main's try block, in order.  "collection_stats" is the
\* success message and the loop over collection.count().
MainSteps ==
  << "setup_chroma_client", "create_collections",
     "populate_relationship_themes", "populate_game_contexts",
     "test_similarity_search", "collection_stats" >>

PopulateSteps == { "populate_relationship_themes", "populate_game_contexts" }

\* The collection a populate step is handed by main, and its batch.
PopulateTarget(fn) ==
  IF fn = "populate_relationship_themes" THEN "relationship_themes"
  ELSE "game_contexts"

Batch(fn) == IF fn = "populate_relationship_themes" THEN ThemeBatch ELSE GameBatch

\* The statement of main that follows the call of fn.
After(fn) ==
  LET i == CHOOSE j \in DOMAIN MainSteps : MainSteps[j] = fn
  IN  IF i < Len(MainSteps) THEN MainSteps[i + 1] ELSE "success"

FirstPhase(fn) ==
  CASE fn = "setup_chroma_client" -> "connect"
    [] fn = "create_collections" -> "create"
    [] fn \in PopulateSteps -> "embed"
    [] fn = "test_similarity_search" -> "query"
    [] fn = "collection_stats" -> "count"
    [] OTHER -> "end"

\* Control at the start of fn, called from `ret` ("main", or "caller" for a
\* direct call of create_collections).
Entry(fn, ret) == [fn |-> fn, i |-> 1, ph |-> FirstPhase(fn), ret |-> ret]

\* fn returns normally.
Returns(p) ==
  IF p.ret = "main" THEN Entry(After(p.fn), "main") ELSE Entry("returned", p.ret)

\* main's handler without its raise: the error is logged and main returns.
MainExceptNoRaise(p) == Entry("success", "main")

\* main's handler: except Exception as e: logger.error(...); raise
MainExcept(p) == Entry("failed", "main")

\* An exception leaves fn: nothing between the call and main's handler
\* catches it.
Raises(p) == IF p.ret = "main" THEN MainExcept(p) ELSE Entry("raised", p.ret)

\* The handler comparing the whole text instead of searching it.
OnCreateErrorExact(e) == IF e = "already exists" THEN "get" ELSE "raise"

\* The handler falling back to get_collection on any exception.
OnCreateErrorAny(e) == "get"

\* create_collections' handler: if "already exists" in str(e): get, else raise
OnCreateError(e) == IF Contains(e, "already exists") THEN "get" ELSE "raise"

\* Every handler a copy of the first, its name left unchanged.
FallbackNameFirst(i) == CollectionSpecs[1].name

\* The name the handler of the i-th collection passes to get_collection.
FallbackName(i) == CollectionSpecs[i].name

\* After collections[name] is set: the next collection, or return.
NextCollection(p) ==
  IF p.i < Len(CollectionSpecs) THEN [p EXCEPT !.i = p.i + 1, !.ph = "create"]
  ELSE Returns(p)

(***************************************************************************)
(* Initial state, steps                                                    *)
(***************************************************************************)
vars == <<chroma, pc, collections, runs, done, failure, prev>>

Clients == DOMAIN pc

NoCollections == [n \in CollectionNames |-> NoHandle]

NoFailure == [fn |-> "", ph |-> "", external |-> FALSE]

NoPrev == [outcome |-> "none", collections |-> NoCollections, done |-> {}, chroma |-> {}]

\* One run of main against an empty store.
Init ==
  /\ chroma = {}
  /\ pc = [c \in {1} |-> Entry(MainSteps[1], "main")]
  /\ collections = [c \in {1} |-> NoCollections]
  /\ runs = 1
  /\ done = [c \in {1} |-> {}]
  /\ failure = [c \in {1} |-> NoFailure]
  /\ prev = NoPrev

Completed(c, op, arg) == done' = [done EXCEPT ![c] = @ \cup {<<op, arg>>}]

Goto(c, p) == pc' = [pc EXCEPT ![c] = p]

\* An exception arises at pc[c]: of an external cause (the call failed on its
\* own) or not (the call failed because of what the script handed it).
Thrown(c, external) ==
  failure' = [failure EXCEPT ![c] = [fn |-> pc[c].fn, ph |-> pc[c].ph, external |-> external]]

\* ---- setup_chroma_client
Connect(c) ==
  /\ pc[c].ph = "connect"
  /\ Goto(c, Returns(pc[c]))
  /\ Completed(c, "connect", "")
  /\ UNCHANGED <<chroma, collections, runs, failure, prev>>

ConnectFails(c) ==
  /\ pc[c].ph = "connect"
  /\ Thrown(c, TRUE)
  /\ Goto(c, Raises(pc[c]))
  /\ UNCHANGED <<chroma, collections, runs, done, prev>>

\* ---- create_collections
CreateCollection(c) ==
  LET p == pc[c]
      s == CollectionSpecs[p.i]
      r == create_collection(chroma, s.name, [description |-> s.description])
  IN  /\ p.ph = "create"
      /\ ~r.raised
      /\ chroma' = r.db
      /\ collections' = [collections EXCEPT ![c][s.name] = r.handle]
      /\ Goto(c, NextCollection(p))
      /\ Completed(c, "create_collection", s.name)
      /\ UNCHANGED <<runs, failure, prev>>

CreateCollectionExists(c) ==
  LET p == pc[c]
      s == CollectionSpecs[p.i]
      r == create_collection(chroma, s.name, [description |-> s.description])
  IN  /\ p.ph = "create"
      /\ r.raised
      /\ IF OnCreateError(r.e) = "get"
         THEN Goto(c, [p EXCEPT !.ph = "get"]) /\ UNCHANGED failure
         ELSE Goto(c, Raises(p)) /\ Thrown(c, FALSE)
      /\ UNCHANGED <<chroma, collections, runs, done, prev>>

\* create_collection fails for another reason; the store may have created
\* the collection all the same.
CreateCollectionFails(c) ==
  LET p == pc[c]
      s == CollectionSpecs[p.i]
      r == create_collection(chroma, s.name, [description |-> s.description])
  IN  /\ p.ph = "create"
      /\ \E e \in OtherFailures, applied \in BOOLEAN :
           /\ chroma' = IF applied THEN r.db ELSE chroma
           /\ Goto(c, IF OnCreateError(e) = "get" THEN [p EXCEPT !.ph = "get"]
                      ELSE Raises(p))
      /\ Thrown(c, TRUE)
      /\ UNCHANGED <<collections, runs, done, prev>>

GetCollection(c) ==
  LET p == pc[c]
      s == CollectionSpecs[p.i]
  IN  /\ p.ph = "get"
      /\ Named(chroma, FallbackName(p.i)) # {}
      /\ collections' = [collections EXCEPT ![c][s.name] = get_collection(chroma, FallbackName(p.i))]
      /\ Goto(c, NextCollection(p))
      /\ Completed(c, "get_collection", s.name)
      /\ UNCHANGED <<chroma, runs, failure, prev>>

GetCollectionFails(c) ==
  /\ pc[c].ph = "get"
  /\ Thrown(c, TRUE)
  /\ Goto(c, Raises(pc[c]))
  /\ UNCHANGED <<chroma, collections, runs, done, prev>>

\* ---- populate_relationship_themes, populate_game_contexts
Embed(c) ==
  /\ pc[c].ph = "embed"
  /\ Goto(c, [pc[c] EXCEPT !.ph = "add"])
  /\ Completed(c, "embed", PopulateTarget(pc[c].fn))
  /\ UNCHANGED <<chroma, collections, runs, failure, prev>>

EmbedFails(c) ==
  /\ pc[c].ph = "embed"
  /\ Thrown(c, TRUE)
  /\ Goto(c, Raises(pc[c]))
  /\ UNCHANGED <<chroma, collections, runs, done, prev>>

Add(c) ==
  LET p == pc[c]
      h == collections[c][PopulateTarget(p.fn)]
      b == Batch(p.fn)
      r == CollectionAdd(ByHandle(chroma, h).records, b.documents, b.metadatas,
                         b.ids, generate_embeddings(b.documents))
  IN  /\ p.ph = "add"
      /\ h # NoHandle
      /\ chroma' = WithRecords(chroma, h, r.records)
      /\ Goto(c, IF r.raised THEN Raises(p) ELSE Returns(p))
      /\ done' = [done EXCEPT ![c] =
                    IF r.raised THEN @ ELSE @ \cup {<<"populate", PopulateTarget(p.fn)>>}]
      /\ IF r.raised THEN Thrown(c, FALSE) ELSE UNCHANGED failure
      /\ UNCHANGED <<collections, runs, prev>>

\* collection.add fails on its own; the store may have taken none, some or
\* all of the batch.
AddFails(c) ==
  LET p == pc[c]
      h == collections[c][PopulateTarget(p.fn)]
      b == Batch(p.fn)
  IN  /\ p.ph = "add"
      /\ h # NoHandle
      /\ \E n \in 0..Len(b.ids) :
           LET r == CollectionAdd(ByHandle(chroma, h).records,
                                  SubSeq(b.documents, 1, n), SubSeq(b.metadatas, 1, n),
                                  SubSeq(b.ids, 1, n),
                                  generate_embeddings(SubSeq(b.documents, 1, n)))
           IN  chroma' = WithRecords(chroma, h, r.records)
      /\ Thrown(c, TRUE)
      /\ Goto(c, Raises(p))
      /\ UNCHANGED <<collections, runs, done, prev>>

\* A sample query that stores the query text in the collection it searches.
QueryWrites(c) ==
  LET p == pc[c]
      h == collections[c]["relationship_themes"]
      q == test_queries[p.i]
      r == CollectionAdd(ByHandle(chroma, h).records, <<q>>, <<[theme |-> "query"]>>,
                         <<q>>, generate_embeddings(<<q>>))
  IN  /\ p.ph = "query"
      /\ h # NoHandle
      /\ chroma' = WithRecords(chroma, h, r.records)
      /\ Goto(c, IF p.i < Len(test_queries) THEN [p EXCEPT !.i = p.i + 1]
                 ELSE Returns(p))
      /\ Completed(c, "query", q)
      /\ UNCHANGED <<collections, runs, failure, prev>>

\* ---- test_similarity_search: one query per test query, on relationship_themes
Query(c) ==
  LET p == pc[c]
  IN  /\ p.ph = "query"
      /\ collections[c]["relationship_themes"] # NoHandle
      /\ Goto(c, IF p.i < Len(test_queries) THEN [p EXCEPT !.i = p.i + 1]
                 ELSE Returns(p))
      /\ Completed(c, "query", test_queries[p.i])
      /\ UNCHANGED <<chroma, collections, runs, failure, prev>>

QueryFails(c) ==
  /\ pc[c].ph = "query"
  /\ Thrown(c, TRUE)
  /\ Goto(c, Raises(pc[c]))
  /\ UNCHANGED <<chroma, collections, runs, done, prev>>

\* ---- the count report: for name, collection in collections.items()
CollectionCount(c) ==
  LET p == pc[c]
      name == CollectionSpecs[p.i].name
  IN  /\ p.ph = "count"
      /\ collections[c][name] # NoHandle
      /\ Goto(c, IF p.i < Len(CollectionSpecs) THEN [p EXCEPT !.i = p.i + 1]
                 ELSE Returns(p))
      /\ Completed(c, "count", name)
      /\ UNCHANGED <<chroma, collections, runs, failure, prev>>

CollectionCountFails(c) ==
  /\ pc[c].ph = "count"
  /\ Thrown(c, TRUE)
  /\ Goto(c, Raises(pc[c]))
  /\ UNCHANGED <<chroma, collections, runs, done, prev>>

\* ---- the script is run again, as a new process, against the same store
Rerun(c) ==
  /\ pc[c].fn \in {"success", "failed"}
  /\ runs < MaxRuns
  /\ runs' = runs + 1
  /\ prev' = [outcome |-> pc[c].fn, collections |-> collections[c],
              done |-> done[c], chroma |-> chroma]
  /\ Goto(c, Entry(MainSteps[1], "main"))
  /\ collections' = [collections EXCEPT ![c] = NoCollections]
  /\ done' = [done EXCEPT ![c] = {}]
  /\ failure' = [failure EXCEPT ![c] = NoFailure]
  /\ UNCHANGED chroma

Next ==
  \/ \E c \in Clients : Connect(c)
  \/ \E c \in Clients : ConnectFails(c)
  \/ \E c \in Clients : CreateCollection(c)
  \/ \E c \in Clients : CreateCollectionExists(c)
  \/ \E c \in Clients : CreateCollectionFails(c)
  \/ \E c \in Clients : GetCollection(c)
  \/ \E c \in Clients : GetCollectionFails(c)
  \/ \E c \in Clients : Embed(c)
  \/ \E c \in Clients : EmbedFails(c)
  \/ \E c \in Clients : Add(c)
  \/ \E c \in Clients : AddFails(c)
  \/ \E c \in Clients : Query(c)
  \/ \E c \in Clients : QueryFails(c)
  \/ \E c \in Clients : CollectionCount(c)
  \/ \E c \in Clients : CollectionCountFails(c)
  \/ \E c \in Clients : Rerun(c)

Spec == Init /\ [][Next]_vars

(***************************************************************************)
(* Concurrent runs of create_collections: NumClients clients call it       *)
(* directly against one store that holds the collections an interrupted    *)
(* earlier run left (a prefix of CollectionSpecs), every store call atomic *)
(* and none failing on its own.                                            *)
(***************************************************************************)
RECURSIVE StoreWith(_)
StoreWith(n) ==
  IF n = 0 THEN {}
  ELSE create_collection(StoreWith(n - 1), CollectionSpecs[n].name,
                         [description |-> CollectionSpecs[n].description]).db

InitConc ==
  /\ chroma \in { StoreWith(n) : n \in 0..Len(CollectionSpecs) }
  /\ pc = [c \in 1..NumClients |-> Entry("create_collections", "caller")]
  /\ collections = [c \in 1..NumClients |-> NoCollections]
  /\ runs = 0
  /\ done = [c \in 1..NumClients |-> {}]
  /\ failure = [c \in 1..NumClients |-> NoFailure]
  /\ prev = NoPrev

NextConc ==
  \/ \E c \in Clients : CreateCollection(c)
  \/ \E c \in Clients : CreateCollectionExists(c)
  \/ \E c \in Clients : GetCollection(c)

SpecConc == InitConc /\ [][NextConc]_vars

(***************************************************************************)
(* Properties                                                              *)
(***************************************************************************)
Ensured(d, name) ==
  <<"create_collection", name>> \in d \/ <<"get_collection", name>> \in d

AllEnsured(d) == \A name \in CollectionNames : Ensured(d, name)

Populated(d, fn) == <<"populate", PopulateTarget(fn)>> \in d

\* The records of the collection called name (none when there is no such
\* collection).
RecordsOf(db, name) ==
  IF Named(db, name) = {} THEN NoRecords
  ELSE (CHOOSE k \in Named(db, name) : TRUE).records

\* The records are those of fn's catalog: its ids, each with the document and
\* the metadata the catalog record projects to.
MatchesCatalog(records, fn) ==
  LET b == Batch(fn)
  IN  /\ DOMAIN records = Range(b.ids)
      /\ \A i \in DOMAIN b.ids :
           /\ records[b.ids[i]].document = b.documents[i]
           /\ records[b.ids[i]].metadata = b.metadatas[i]

\* An exception that no external failure caused.
OwnFailure(c) == failure[c] # NoFailure /\ ~failure[c].external

\* C1: Upsert stability.  When the previous run completed a populate step and
\* this run calls the same step on the same collection, the call does not fail
\* (unless the store or the model fails on its own) and, once it has returned,
\* the collection holds as many records as the previous run left, each with
\* the document and metadata of its catalog record.
C1_UpsertStability ==
  \A c \in Clients, fn \in PopulateSteps :
    Populated(prev.done, fn) =>
      /\ failure[c].fn = fn => failure[c].external
      /\ Populated(done[c], fn) =>
           /\ Cardinality(DOMAIN RecordsOf(chroma, PopulateTarget(fn)))
                = Cardinality(DOMAIN RecordsOf(prev.chroma, PopulateTarget(fn)))
           /\ MatchesCatalog(RecordsOf(chroma, PopulateTarget(fn)), fn)

C1_Witness ==
  \E c \in Clients :
    \A fn \in PopulateSteps : Populated(prev.done, fn) /\ Populated(done[c], fn)

\* C2: Idempotent collection creation.  When the previous run's
\* create_collections returned, this run's create_collections does not raise
\* (unless the store fails on its own) and, once it has returned, its dict
\* holds for every name the handle the previous call returned, that handle is
\* the collection of that name, and the store holds one collection per name.
C2_IdempotentCreate ==
  \A c \in Clients :
    AllEnsured(prev.done) =>
      /\ failure[c].fn = "create_collections" => failure[c].external
      /\ AllEnsured(done[c]) =>
           /\ collections[c] = prev.collections
           /\ \A name \in CollectionNames :
                /\ Cardinality(Named(chroma, name)) = 1
                /\ ByHandle(chroma, collections[c][name]).name = name

C2_Witness ==
  \E c \in Clients :
    /\ AllEnsured(prev.done)
    /\ \A name \in CollectionNames : <<"get_collection", name>> \in done[c]

\* Names and record counts of the collections of a store.
Counts(db) == { <<k.name, Cardinality(DOMAIN k.records)>> : k \in db }

\* The steps a run takes when no external call fails.
Proceed(c) ==
  \/ Connect(c) \/ CreateCollection(c) \/ CreateCollectionExists(c)
  \/ GetCollection(c) \/ Embed(c) \/ Add(c) \/ Query(c) \/ CollectionCount(c)

\* C3: A run of main after a run that succeeded raises nothing of its own
\* (neither "already exists" nor anything else), can take its next step until
\* it has ended, and ends with the collections and record counts the previous
\* run left.
C3_RerunAfterSuccess ==
  \A c \in Clients :
    prev.outcome = "success" =>
      /\ ~OwnFailure(c)
      /\ pc[c].fn \notin {"success", "failed"} => ENABLED Proceed(c)
      /\ pc[c].fn = "success" => Counts(chroma) = Counts(prev.chroma)

C3_Witness ==
  \E c \in Clients : prev.outcome = "success" /\ pc[c].fn = "success"

\* The contents a single successful run leaves in an empty store: per
\* collection name, the ids it holds.
Contents(db) == { <<k.name, DOMAIN k.records>> : k \in db }

FreshRunContents ==
  { <<"relationship_themes", { RELATIONSHIP_THEMES[i].id : i \in DOMAIN RELATIONSHIP_THEMES }>>,
    <<"translator_history", {}>>,
    <<"game_contexts", { game_contexts[i].id : i \in DOMAIN game_contexts }>> }

\* C4: Safe re-execution after failure.  A run of main after a run that
\* failed, at whatever step, raises nothing of its own, can take its next step
\* until it has ended, and on success leaves the store with the collections,
\* ids and counts of a single successful run on an empty store.
C4_RerunAfterFailure ==
  \A c \in Clients :
    prev.outcome = "failed" =>
      /\ ~OwnFailure(c)
      /\ pc[c].fn \notin {"success", "failed"} => ENABLED Proceed(c)
      /\ pc[c].fn = "success" => Contents(chroma) = FreshRunContents

\* A run that succeeds after a run whose collection.add failed half way.
C4_Witness ==
  \E c \in Clients :
    /\ prev.outcome = "failed"
    /\ pc[c].fn = "success"
    /\ \E k \in prev.chroma :
         /\ k.name = "relationship_themes"
         /\ DOMAIN k.records # {}
         /\ Cardinality(DOMAIN k.records) < Len(RELATIONSHIP_THEMES)

\* The set of records of every collection name is that at the start of the
\* run.
NothingPopulated(db) ==
  \A name \in CollectionNames : RecordsOf(db, name) = RecordsOf(prev.chroma, name)

\* C5: In create_collections one failure is recovered: when create_collection
\* raises because the name is taken, the handler goes on to get_collection on
\* the same name and nothing is raised.  Every failure of create_collection of
\* another cause, and every failure of the fallback get_collection, ends the
\* run in failure, with no populate step begun and the records of every
\* collection as they were when the run started.
C5_OnlyAlreadyExistsRecovered ==
  [][\A c \in Clients :
       /\ ( /\ pc[c].ph = "create"
            /\ pc'[c] # pc[c]
            /\ Named(chroma, CollectionSpecs[pc[c].i].name) # {}
            /\ ~failure'[c].external )
          => /\ pc'[c] = [pc[c] EXCEPT !.ph = "get"]
             /\ failure'[c] = NoFailure
       /\ failure'[c].fn = "create_collections"
          => /\ pc'[c].fn = "failed"
             /\ \A fn \in PopulateSteps :
                  /\ <<"embed", PopulateTarget(fn)>> \notin done'[c]
                  /\ ~Populated(done'[c], fn)
             /\ NothingPopulated(chroma')
    ]_vars

\* A run in which one name was recovered and the fallback get_collection of
\* the next name then failed.
C5_Witness ==
  \E c \in Clients :
    /\ <<"get_collection", "relationship_themes">> \in done[c]
    /\ failure[c] = [fn |-> "create_collections", ph |-> "get", external |-> TRUE]
    /\ pc[c].fn = "failed"

Queries == { <<"query", test_queries[i]>> : i \in DOMAIN test_queries }

CountReports == { <<"count", name>> : name \in CollectionNames }

\* What main runs after the populate step fn.
LaterCalls(fn) ==
  Queries \cup CountReports \cup
    (IF fn = "populate_relationship_themes"
     THEN { <<"embed", "game_contexts">>, <<"populate", "game_contexts">> }
     ELSE {})

\* C6: populate fails loudly.  When embedding generation or collection.add
\* fails in a populate step, the run is in the failed state (never in the
\* success state), the step has not completed and no later call of main has
\* run (no game-context population after a theme failure, no sample query, no
\* count report); and a failure of embedding generation leaves the store as it
\* was.
C6_PopulateFailsLoudly ==
  [][\A c \in Clients :
       /\ failure'[c].fn \in PopulateSteps
          => /\ pc'[c].fn = "failed"
             /\ ~Populated(done'[c], failure'[c].fn)
             /\ done'[c] \cap LaterCalls(failure'[c].fn) = {}
       /\ ( /\ failure[c] = NoFailure
            /\ failure'[c].fn \in PopulateSteps
            /\ failure'[c].ph = "embed" )
          => chroma' = chroma
       /\ (pc[c].fn = "failed" /\ failure[c].fn \in PopulateSteps)
          => (chroma' = chroma /\ done'[c] \subseteq done[c])
    ]_vars

C6_Witness ==
  \E c \in Clients :
    /\ failure[c].fn = "populate_relationship_themes"
    /\ failure[c].ph = "embed"
    /\ pc[c].fn = "failed"

\* The calls that must have completed in the run before the call e.
Ready(e, d) ==
  CASE e[1] = "connect" -> TRUE
    [] e[1] \in {"create_collection", "get_collection"} -> <<"connect", "">> \in d
    [] e[1] = "embed" /\ e[2] = "relationship_themes" -> AllEnsured(d)
    [] e[1] = "embed" /\ e[2] = "game_contexts" ->
         Populated(d, "populate_relationship_themes")
    [] e[1] = "populate" -> AllEnsured(d) /\ <<"embed", e[2]>> \in d
    [] e[1] = "query" -> \A fn \in PopulateSteps : Populated(d, fn)
    [] e[1] = "count" -> Queries \subseteq d
    [] OTHER -> FALSE

\* C7: Control flow of main is linear.  No record is written before all three
\* collections are ensured; relationship_themes is populated before
\* game_contexts is begun; no sample query is issued before both populate
\* steps have completed; no count is reported before all sample queries have
\* completed; and the run ends, in success, exactly when the three counts are
\* reported.
C7_LinearControlFlow ==
  [][\A c \in Clients :
       /\ \A e \in done'[c] \ done[c] : Ready(e, done[c])
       /\ (\E name \in CollectionNames :
             RecordsOf(chroma', name) # RecordsOf(chroma, name))
          => AllEnsured(done[c])
       /\ pc'[c].fn = "success" <=> CountReports \subseteq done'[c]
    ]_vars

C7_Witness ==
  \E c \in Clients : runs = 1 /\ pc[c].fn = "success" /\ CountReports \subseteq done[c]

Catalog(fn) ==
  IF fn = "populate_relationship_themes" THEN RELATIONSHIP_THEMES ELSE game_contexts

CatalogIds(fn) == { Catalog(fn)[i].id : i \in DOMAIN Catalog(fn) }

\* C8: After a populate step has run successfully on a collection that was
\* empty, the ids stored in the collection are exactly the ids of the step's
\* catalog, one record per catalog record; no two catalog records share an id;
\* and count() is 15 for relationship_themes and 8 for game_contexts.
C8_ExactCatalogIds ==
  \A c \in Clients, fn \in PopulateSteps :
    ( /\ Populated(done[c], fn)
      /\ DOMAIN RecordsOf(prev.chroma, PopulateTarget(fn)) = {} )
    => /\ DOMAIN RecordsOf(chroma, PopulateTarget(fn)) = CatalogIds(fn)
       /\ \A i, j \in DOMAIN Catalog(fn) :
            Catalog(fn)[i].id = Catalog(fn)[j].id => i = j
       /\ count(chroma, collections[c][PopulateTarget(fn)]) = Len(Catalog(fn))
       /\ count(chroma, collections[c][PopulateTarget(fn)])
            = IF fn = "populate_relationship_themes" THEN 15 ELSE 8

C8_Witness ==
  \E c \in Clients :
    /\ prev.chroma = {}
    /\ \A fn \in PopulateSteps : Populated(done[c], fn)

\* C9: The verifier only reads.  No step taken while main is in
\* test_similarity_search, a completed query or a failed one, changes the
\* store: its collections and their ids, documents, metadata, embeddings and
\* counts stay as they were.
C9_VerifierReadOnly ==
  [][\A c \in Clients : pc[c].fn = "test_similarity_search" => chroma' = chroma]_vars

C9_Witness ==
  \E c \in Clients :
    /\ Queries \subseteq done[c]
    /\ RecordsOf(chroma, "relationship_themes") # NoRecords

\* C10: Concurrent runs of create_collections.  In every interleaving no run
\* raises, a run that has not returned can take its next step, a run that has
\* returned holds for every name the handle of the one collection of that
\* name, and no name is ever created twice.
C10_ConcurrentCreate ==
  /\ \A c \in Clients :
       /\ pc[c].fn # "raised"
       /\ failure[c] = NoFailure
       /\ pc[c].fn # "returned" => ENABLED Proceed(c)
       /\ pc[c].fn = "returned" =>
            \A name \in CollectionNames :
              /\ collections[c][name] # NoHandle
              /\ Named(chroma, name) = { ByHandle(chroma, collections[c][name]) }
  /\ \A name \in CollectionNames :
       /\ Cardinality(Named(chroma, name)) <= 1
       /\ Cardinality({ c \in Clients : <<"create_collection", name>> \in done[c] }) <= 1

\* Both runs returned, each having won one create race and lost another.
C10_Witness ==
  /\ \A c \in Clients : pc[c].fn = "returned"
  /\ \E c1, c2 \in Clients :
       /\ c1 # c2
       /\ <<"create_collection", "relationship_themes">> \in done[c1]
       /\ <<"get_collection", "translator_history">> \in done[c1]
       /\ <<"create_collection", "translator_history">> \in done[c2]
       /\ <<"get_collection", "relationship_themes">> \in done[c2]

=============================================================================
